---- MODULE Spec2Model ----
(***************************************************************************)
(* A model of the football prediction backend (src/app.py): the Superbru   *)
(* points rule, the Poisson score grid with its two arg-max scans, the     *)
(* expected-goals estimator, the on-disk league-table cache and the        *)
(* /predict request handler running on concurrent worker threads.          *)
(*                                                                         *)
(* Numbers.  Python floats are modelled as follows.                        *)
(*   - expected goals and table averages are exact fractions n/d, or the   *)
(*     IEEE values nan / inf that a float division by zero produces;       *)
(*   - points are counted in half points (3.0 = 6, 1.5 = 3, 1.0 = 2);      *)
(*   - a Poisson probability is a fixed-point number: Scale * mu^k / k!,   *)
(*     truncated, i.e. the probability without its factor exp(-mu).  The   *)
(*     factor is the same positive number in every cell of one grid, so    *)
(*     every comparison the scans make is unchanged by leaving it out.     *)
(***************************************************************************)
EXTENDS Integers, Sequences, FiniteSets, TLC

VARIABLES call, cache, req

vars == <<call, cache, req>>

(***************************************************************************)
(* Bounds of the model.                                                    *)
(***************************************************************************)
Scale == 1000
MaxLamTenths == 30
MaxAge == 3
NumReq == 2

(***************************************************************************)
(* Program constants.                                                      *)
(***************************************************************************)
CACHE_EXPIRY_HOURS == 3
max_goals == 6

Exact == 6
Close == 3
ResultOnly == 2
NoPoints == 0

(***************************************************************************)
(* Floats.                                                                 *)
(***************************************************************************)
Fin(n, d) == [k |-> "fin", n |-> n, d |-> d]
NaN == [k |-> "nan", n |-> 0, d |-> 1]
Inf == [k |-> "inf", n |-> 0, d |-> 1]

IsFinite(x) == x.k = "fin"

\* x * y on floats (values here are never negative)
FMul(x, y) ==
    IF x.k = "nan" \/ y.k = "nan" THEN NaN
    ELSE IF x.k = "inf" \/ y.k = "inf"
         THEN IF (x.k = "fin" /\ x.n = 0) \/ (y.k = "fin" /\ y.n = 0) THEN NaN ELSE Inf
         ELSE Fin(x.n * y.n, x.d * y.d)

\* x / y on numpy floats: a zero divisor gives nan or inf, never an exception
FDiv(x, y) ==
    IF x.k = "nan" \/ y.k = "nan" THEN NaN
    ELSE IF y.k = "inf" THEN (IF x.k = "inf" THEN NaN ELSE Fin(0, 1))
    ELSE IF x.k = "inf" THEN Inf
    ELSE IF y.n = 0 THEN (IF x.n = 0 THEN NaN ELSE Inf)
    ELSE Fin(x.n * y.d, x.d * y.n)

Abs(x) == IF x < 0 THEN -x ELSE x

(***************************************************************************)
(* calculate_superbru_points                                               *)
(***************************************************************************)
Result(home, away) == IF home > away THEN "H" ELSE IF home < away THEN "A" ELSE "D"

calculate_superbru_points_no_direction(guess_home, guess_away, actual_home, actual_away) ==
    IF guess_home = actual_home /\ guess_away = actual_away THEN Exact
    ELSE IF Abs(guess_home - actual_home) <= 1 /\ Abs(guess_away - actual_away) <= 1
         THEN Close
         ELSE IF Result(guess_home, guess_away) = Result(actual_home, actual_away)
              THEN ResultOnly
              ELSE NoPoints

calculate_superbru_points(guess_home, guess_away, actual_home, actual_away) ==
    IF guess_home = actual_home /\ guess_away = actual_away THEN Exact
    ELSE LET guess_result == Result(guess_home, guess_away)
             actual_result == Result(actual_home, actual_away)
         IN IF /\ Abs(guess_home - actual_home) <= 1
               /\ Abs(guess_away - actual_away) <= 1
               /\ guess_result = actual_result
            THEN Close
            ELSE IF guess_result = actual_result THEN ResultOnly ELSE NoPoints

(***************************************************************************)
(* The score grid of best_superbru_prediction.                             *)
(***************************************************************************)
Digit == <<"0", "1", "2", "3", "4", "5", "6", "7", "8", "9">>

\* f"{h}-{a}"
ScoreStr(h, a) == Digit[h + 1] \o "-" \o Digit[a + 1]

\* a list or table held as computed values (f itself, evaluated once)
Stored(f) == f @@ <<>>

\* range(n)
RangeShort(n) == [i \in 1..(n - 1) |-> i - 1]

Range(n) == [i \in 1..n |-> i - 1]

\* the nested loops "for h in range(max_goals + 1): for a in range(max_goals + 1)",
\* as the sequence of (h, a) in the order the loops visit them
GridOrder ==
    LET r == Range(max_goals + 1)
        n == Len(r)
    IN Stored([i \in 1..(n * n) |->
                 [h |-> r[((i - 1) \div n) + 1], a |-> r[((i - 1) % n) + 1]]])

\* poisson.pmf(k + 1, mu)
RECURSIVE poisson_pmf_off_by_one(_, _)
poisson_pmf_off_by_one(k, mu) ==
    IF k = 0 THEN (Scale * mu.n) \div mu.d
    ELSE (poisson_pmf_off_by_one(k - 1, mu) * mu.n) \div (mu.d * (k + 1))

\* poisson.pmf(k, mu) for a finite mu, times exp(mu), in fixed point
RECURSIVE poisson_pmf(_, _)
poisson_pmf(k, mu) ==
    IF k = 0 THEN Scale ELSE (poisson_pmf(k - 1, mu) * mu.n) \div (mu.d * k)

\* the list "probabilities" (prob_df): one row per cell, in loop order.  With a
\* nan expected-goals value every Probability is nan: the rows carry 0 and the
\* grid as a whole is flagged (GridIsNaN).
Probabilities(lh, la) ==
    LET hp == Stored([k \in 0..max_goals |-> IF IsFinite(lh) THEN poisson_pmf(k, lh) ELSE 0])
        ap == Stored([k \in 0..max_goals |-> IF IsFinite(la) THEN poisson_pmf(k, la) ELSE 0])
    IN Stored([i \in DOMAIN GridOrder |->
                 [h |-> GridOrder[i].h, a |-> GridOrder[i].a,
                  p |-> hp[GridOrder[i].h] * ap[GridOrder[i].a]]])

\* no inf reaches the grid (PredictGoalsNeverInf); nan poisons every cell
GridIsNaN(lh, la) == ~IsFinite(lh) \/ ~IsFinite(la)

\* expected_points of one guess: the sum over the rows lo..hi of prob_df, taken
\* left to right (split in halves only to keep the evaluation shallow)
RECURSIVE SumPoints(_, _, _, _, _)
SumPoints(prob, gh, ga, lo, hi) ==
    IF lo > hi THEN 0
    ELSE IF lo = hi
         THEN calculate_superbru_points(gh, ga, prob[lo].h, prob[lo].a) * prob[lo].p
         ELSE LET mid == (lo + hi) \div 2
              IN SumPoints(prob, gh, ga, lo, mid) + SumPoints(prob, gh, ga, mid + 1, hi)

ExpectedPoints(prob, gh, ga) == SumPoints(prob, gh, ga, 1, Len(prob))

\* "if x > max": false whenever a nan is involved; -inf is below everything
Less(x, max, isNaN, maxIsNegInf) == ~isNaN /\ (maxIsNegInf \/ x < max)

GreaterGE(x, max, isNaN, maxIsNegInf) == ~isNaN /\ (maxIsNegInf \/ x >= max)

Greater(x, max, isNaN, maxIsNegInf) == ~isNaN /\ (maxIsNegInf \/ x > max)

\* "if x > max: max = x; best = here" applied to the running state st and the
\* candidate c, both [max, neginf, at]; at = 0 stands for the initial choice
Keep(st, c, isNaN) ==
    IF Greater(c.max, st.max, isNaN, st.neginf) THEN c ELSE st

\* the state a "keep the first strictly greater" loop over vals[lo..hi] ends in.
\* The loop is evaluated by halves to keep the evaluation shallow: what it keeps
\* over lo..hi is what it keeps over lo..mid, unless a later value is strictly
\* greater, and then it is what the loop keeps over mid+1..hi.
RECURSIVE Scan(_, _, _, _)
Scan(vals, isNaN, lo, hi) ==
    IF lo = hi THEN [max |-> vals[lo], neginf |-> FALSE, at |-> lo]
    ELSE LET mid == (lo + hi) \div 2
         IN Keep(Scan(vals, isNaN, lo, mid), Scan(vals, isNaN, mid + 1, hi), isNaN)

\* lines 151-196: both selections over the grid
ScoreSearch(lh, la) ==
    LET prob == Probabilities(lh, la)
        isNaN == GridIsNaN(lh, la)
        ml == Keep([max |-> 0, neginf |-> FALSE, at |-> 0],
                   Scan([i \in DOMAIN prob |-> prob[i].p], isNaN, 1, Len(prob)), isNaN)
        eps == Stored([i \in DOMAIN GridOrder |->
                         ExpectedPoints(prob, GridOrder[i].h, GridOrder[i].a)])
        bg == Keep([max |-> 0, neginf |-> TRUE, at |-> 0],
                   Scan(eps, isNaN, 1, Len(GridOrder)), isNaN)
    IN [probabilities |-> prob,
        candidates |-> GridOrder,
        most_likely_score |-> IF ml.at = 0 THEN "0-0"
                              ELSE ScoreStr(prob[ml.at].h, prob[ml.at].a),
        best_guess |-> IF bg.at = 0 THEN ScoreStr(0, 0)
                       ELSE ScoreStr(GridOrder[bg.at].h, GridOrder[bg.at].a)]

(***************************************************************************)
(* The league data: what the scraped page can hold (teamsData), as a        *)
(* sequence of teams in the order of the JSON object, each with its match   *)
(* history; a match is [h_a, xG, xGA].                                      *)
(***************************************************************************)
Match(h_a, xG, xGA) == [h_a |-> h_a, xG |-> xG, xGA |-> xGA]

\* before the first round: every history is empty
SeasonStart ==
    <<[title |-> "Arsenal", history |-> <<>>],
      [title |-> "Chelsea", history |-> <<>>]>>

\* Arsenal twice at home to Chelsea, Chelsea once at home to Arsenal
MidSeason ==
    <<[title |-> "Arsenal",
       history |-> <<Match("h", 2, 1), Match("h", 2, 1), Match("a", 1, 1)>>],
      [title |-> "Chelsea",
       history |-> <<Match("a", 1, 2), Match("h", 1, 1), Match("a", 1, 2)>>]>>

\* a page whose teamsData is an empty object
NoTeams == <<>>

Pages == {SeasonStart, MidSeason, NoTeams}

NoneDF == [isNone |-> TRUE, rows |-> <<>>]

DataFrame(rows) == [isNone |-> FALSE, rows |-> rows]

\* sum(...) of a list, Series.sum() of a column
RECURSIVE Sum(_)
Sum(nums) == IF Len(nums) = 0 THEN 0 ELSE nums[1] + Sum(Tail(nums))

\* one column of the rows
Column(rows, name) == [i \in DOMAIN rows |-> rows[i][name]]

\* Series.replace(0, 1)
Replace01(n) == IF n = 0 THEN 1 ELSE n

\* lines 92-111: one row of the frame per team
TeamStats(team_info) ==
    LET home_matches == SelectSeq(team_info.history, LAMBDA m : m.h_a = "h")
        away_matches == SelectSeq(team_info.history, LAMBDA m : m.h_a = "a")
        hg == Len(home_matches)
        ag == Len(away_matches)
        xG_home == Sum(Column(home_matches, "xG"))
        xGA_home == Sum(Column(home_matches, "xGA"))
        xG_away == Sum(Column(away_matches, "xG"))
        xGA_away == Sum(Column(away_matches, "xGA"))
    IN [Team |-> team_info.title,
        Home_Games_Played |-> hg, xG_home |-> xG_home, xGA_home |-> xGA_home,
        Away_Games_Played |-> ag, xG_away |-> xG_away, xGA_away |-> xGA_away,
        Avg_xG_home |-> Fin(xG_home, Replace01(hg)),
        Avg_xGA_home |-> Fin(xGA_home, Replace01(hg)),
        Avg_xG_away |-> Fin(xG_away, Replace01(ag)),
        Avg_xGA_away |-> Fin(xGA_away, Replace01(ag))]

\* fetch_understat_xg_data: None when the request fails (ok = FALSE) and when
\* the frame has no columns (no teams: df['xG_home'] raises KeyError, caught)
fetch_understat_xg_data(ok, page) ==
    IF ~ok \/ Len(page) = 0 THEN NoneDF
    ELSE DataFrame([i \in DOMAIN page |-> TeamStats(page[i])])

(***************************************************************************)
(* predict_goals                                                           *)
(***************************************************************************)
IndexErrorText == "single positional indexer is out-of-bounds"

Returned(v) == [raised |-> FALSE, value |-> v, text |-> ""]
Raised(text) == [raised |-> TRUE, value |-> <<>>, text |-> text]

\* data[data['Team'] == name]
RowsOf(data, name) == SelectSeq(data.rows, LAMBDA row : row.Team = name)

predict_goals(home_team_name, away_team_name, data) ==
    LET avg_xGA_away_per_game ==
            FDiv(Fin(Sum(Column(data.rows, "xGA_away")), 1),
                 Fin(Sum(Column(data.rows, "Away_Games_Played")), 1))
        avg_xGA_home_per_game ==
            FDiv(Fin(Sum(Column(data.rows, "xGA_home")), 1),
                 Fin(Sum(Column(data.rows, "Home_Games_Played")), 1))
        homes == RowsOf(data, home_team_name)
        aways == RowsOf(data, away_team_name)
    IN IF Len(homes) = 0 \/ Len(aways) = 0 THEN Raised(IndexErrorText)
       ELSE LET home_team == homes[1]
                away_team == aways[1]
            IN Returned(
                 <<FDiv(FMul(home_team.Avg_xG_home, away_team.Avg_xGA_away),
                        avg_xGA_away_per_game),
                   FDiv(FMul(away_team.Avg_xG_away, home_team.Avg_xGA_home),
                        avg_xGA_home_per_game)>>)

Names == {"Arsenal", "Chelsea", "Leeds"}

\* ScoreSearch at the expected goals the fixtures of the pages give, evaluated
\* once and looked up afterwards: ScoreSearch is a function of its arguments
\* alone, so the lookup returns what evaluating it again would
LeagueSearches ==
    LET outs == {predict_goals(h, a, fetch_understat_xg_data(TRUE, p)) :
                    h \in Names, a \in Names, p \in Pages \ {NoTeams}}
        goals == {o.value : o \in {x \in outs : ~x.raised}}
    IN Stored([g \in goals |-> ScoreSearch(g[1], g[2])])

SearchOf(lh, la) ==
    IF <<lh, la>> \in DOMAIN LeagueSearches THEN LeagueSearches[<<lh, la>>]
    ELSE ScoreSearch(lh, la)

\* best_superbru_prediction: predict_goals, then the two selections
best_superbru_prediction(home_team_name, away_team_name, data) ==
    LET goals == predict_goals(home_team_name, away_team_name, data)
    IN IF goals.raised THEN goals
       ELSE LET found == SearchOf(goals.value[1], goals.value[2])
            IN Returned(<<found.best_guess, found.most_likely_score>>)

\* round(x, 2) of a float: nan and inf stay; a fraction is rounded to
\* hundredths, halves to the even neighbour
Round2(x) ==
    IF ~IsFinite(x) THEN x
    ELSE LET q == (100 * x.n) \div x.d
             twice == 2 * ((100 * x.n) % x.d)
         IN Fin(IF twice > x.d \/ (twice = x.d /\ q % 2 = 1) THEN q + 1 ELSE q, 100)

(***************************************************************************)
(* The /predict handler.                                                   *)
(***************************************************************************)
Response(status, body) == [status |-> status, body |-> body]

NoResponse == Response(0, [error |-> ""])

\* lines 223-231: "missing" / "same" / "ok"
ValidateNoSameCheck(data) ==
    IF ~({"team1", "team2"} \subseteq DOMAIN data) THEN "missing" ELSE "ok"

Validate(data) ==
    IF ~({"team1", "team2"} \subseteq DOMAIN data) THEN "missing"
    ELSE IF data.team1 = data.team2 THEN "same"
    ELSE "ok"

\* lines 237-251: the response once the table is there
Predict(home_team, away_team, df) ==
    LET goals == predict_goals(home_team, away_team, df)
        scores == best_superbru_prediction(home_team, away_team, df)
    IN IF goals.raised
       THEN Response(500, [error |-> "Internal server error", details |-> goals.text])
       ELSE IF scores.raised
       THEN Response(500, [error |-> "Internal server error", details |-> scores.text])
       ELSE Response(200,
              [Home_Team |-> home_team,
               Away_Team |-> away_team,
               Predicted_Goals_Home |-> Round2(goals.value[1]),
               Predicted_Goals_Away |-> Round2(goals.value[2]),
               Most_Likely_Score |-> scores.value[2],
               Best_SuperBru_Prediction |-> scores.value[1]])

\* lines 28-32: now - mtime < timedelta(hours=CACHE_EXPIRY_HOURS), where age is
\* now - mtime, the whole hours since the file was last written
IsFreshAlways(age) == TRUE

IsFresh(age) == age < CACHE_EXPIRY_HOURS

\* the JSON bodies of the requests: a fixture of the league, a fixture
\* with an unknown home or away team, a team against itself, a missing key
Bodies ==
    {[team1 |-> "Arsenal", team2 |-> "Chelsea"],
     [team1 |-> "Leeds", team2 |-> "Chelsea"],
     [team1 |-> "Arsenal", team2 |-> "Leeds"],
     [team1 |-> "Arsenal", team2 |-> "Arsenal"],
     [team1 |-> "Arsenal"]}

\* no pure-function call is under way
NoCall == [fn |-> "none"]

\* the content of the cache file between its truncation and the end of the dump
Partial == [isNone |-> TRUE, rows |-> <<"truncated">>]

Idle == [pc |-> "idle", data |-> [team1 |-> "Arsenal"], df |-> NoneDF, src |-> "none",
         staleRead |-> FALSE, resp |-> NoResponse]

InitServer ==
    /\ cache = [exists |-> FALSE, age |-> 0, content |-> Partial]
    /\ req = [r \in 1..NumReq |-> Idle]

Init == call = NoCall /\ InitServer

\* lines 221-231: a request arrives and is validated
Begin(r) ==
    /\ req[r].pc \in {"idle", "done"}
    /\ \E data \in Bodies :
          LET v == Validate(data)
              next == [Idle EXCEPT !.data = data]
          IN req' = [req EXCEPT ![r] =
                CASE v = "missing" ->
                       [next EXCEPT !.pc = "done",
                                    !.resp = Response(400,
                                       [error |-> "Both 'team1' and 'team2' are required"])]
                  [] v = "same" ->
                       [next EXCEPT !.pc = "done",
                                    !.resp = Response(400, [error |-> "Teams must be different"])]
                  [] OTHER -> [next EXCEPT !.pc = "check"]]
    /\ UNCHANGED <<call, cache>>

\* lines 28-32: does the cache file exist, and is it fresh?
CheckCache(r) ==
    /\ req[r].pc = "check"
    /\ req' = [req EXCEPT ![r] =
          IF cache.exists /\ IsFresh(cache.age)
          THEN [@ EXCEPT !.pc = "load", !.staleRead = (cache.age >= 3)]
          ELSE [@ EXCEPT !.pc = "scrape"]]
    /\ UNCHANGED <<call, cache>>

\* lines 33-39 and, with the table loaded, 234-251: pickle.load of a file that
\* is being rewritten raises, is logged, and falls through to the scrape
LoadCache(r) ==
    /\ req[r].pc = "load"
    /\ req' = [req EXCEPT ![r] =
          IF cache.content = Partial
          THEN [@ EXCEPT !.pc = "scrape"]
          ELSE [@ EXCEPT !.pc = "done", !.df = cache.content, !.src = "cache",
                         !.resp = Predict(req[r].data.team1, req[r].data.team2, cache.content)]]
    /\ UNCHANGED <<call, cache>>

\* lines 41-42 (and 234-235 when there is no table): scrape the page
Scrape(r) ==
    /\ req[r].pc = "scrape"
    /\ \E ok \in BOOLEAN, page \in Pages :
          LET df == fetch_understat_xg_data(ok, page)
          IN req' = [req EXCEPT ![r] =
                IF df.isNone
                THEN [@ EXCEPT !.pc = "done", !.src = "failed",
                               !.resp = Response(503,
                                  [error |-> "Failed to fetch xG data. Please try again later."])]
                ELSE [@ EXCEPT !.pc = "open", !.df = df, !.src = "scrape"]]
    /\ UNCHANGED <<call, cache>>

\* line 44: open(CACHE_FILE, 'wb') truncates the file in place
OpenCache(r) ==
    /\ req[r].pc = "open"
    /\ cache' = [exists |-> TRUE, age |-> 0, content |-> Partial]
    /\ req' = [req EXCEPT ![r].pc = "dump"]
    /\ UNCHANGED call

\* line 45, the close of the file, and lines 234-251 with the scraped table
DumpCache(r) ==
    /\ req[r].pc = "dump"
    /\ cache' = [exists |-> TRUE, age |-> 0, content |-> req[r].df]
    /\ req' = [req EXCEPT ![r] =
          [@ EXCEPT !.pc = "done", !.resp = Predict(req[r].data.team1, req[r].data.team2, req[r].df)]]
    /\ UNCHANGED call

\* an hour passes: the cache file is an hour older
Tick ==
    /\ cache.exists
    /\ cache.age < MaxAge
    /\ cache' = [cache EXCEPT !.age = @ + 1]
    /\ UNCHANGED <<call, req>>

Next ==
    \/ \E r \in 1..NumReq : Begin(r)
    \/ \E r \in 1..NumReq : CheckCache(r)
    \/ \E r \in 1..NumReq : LoadCache(r)
    \/ \E r \in 1..NumReq : Scrape(r)
    \/ \E r \in 1..NumReq : OpenCache(r)
    \/ \E r \in 1..NumReq : DumpCache(r)
    \/ Tick

Spec == Init /\ [][Next]_vars

(***************************************************************************)
(* Harness for the pure functions: one call, arguments drawn in Init.      *)
(***************************************************************************)
InitPoints ==
    /\ \E gh \in 0..max_goals, ga \in 0..max_goals, ah \in 0..max_goals, aa \in 0..max_goals :
          call = [fn |-> "points", args |-> <<gh, ga, ah, aa>>, done |-> FALSE]
    /\ InitServer

CallPoints ==
    /\ call.fn = "points" /\ ~call.done
    /\ call' = [call EXCEPT !.done = TRUE] @@
               [ret |-> calculate_superbru_points(call.args[1], call.args[2],
                                                  call.args[3], call.args[4])]
    /\ UNCHANGED <<cache, req>>

SpecPoints == InitPoints /\ [][CallPoints]_vars

InitGrid ==
    /\ \E h \in 0..MaxLamTenths, a \in 0..MaxLamTenths :
          call = [fn |-> "search", args |-> <<Fin(h, 10), Fin(a, 10)>>, done |-> FALSE]
    /\ InitServer

CallSearch ==
    /\ call.fn = "search" /\ ~call.done
    /\ call' = [call EXCEPT !.done = TRUE] @@ [ret |-> ScoreSearch(call.args[1], call.args[2])]
    /\ UNCHANGED <<cache, req>>

SpecGrid == InitGrid /\ [][CallSearch]_vars

(***************************************************************************)
(* Properties of the pure functions.                                       *)
(***************************************************************************)
Sign(x) == IF x > 0 THEN 1 ELSE IF x < 0 THEN -1 ELSE 0

SearchDone == call.fn = "search" /\ call.done

Cells == (0..6) \X (0..6)

\* the cell a formatted score names
CellOf(score) == CHOOSE c \in Cells : ScoreStr(c[1], c[2]) = score

\* C1: the points rule is the four-tier rule: 3.0 for the exact score, else 1.5
\* when the outcome direction matches and both goal counts are within 1, else 1.0
\* when only the direction matches, else 0.0 (in half points: 6, 3, 2, 0); with
\* the four worked examples.
PointsTiering ==
    (call.fn = "points" /\ call.done) =>
        LET gh == call.args[1]
            ga == call.args[2]
            ah == call.args[3]
            aa == call.args[4]
            sameDir == Sign(gh - ga) = Sign(ah - aa)
            within1 == (gh - ah) \in {-1, 0, 1} /\ (ga - aa) \in {-1, 0, 1}
        IN /\ (gh = ah /\ ga = aa) => call.ret = 6
           /\ (~(gh = ah /\ ga = aa) /\ sameDir /\ within1) => call.ret = 3
           /\ (~(gh = ah /\ ga = aa) /\ sameDir /\ ~within1) => call.ret = 2
           /\ (~(gh = ah /\ ga = aa) /\ ~sameDir) => call.ret = 0
           /\ call.args = <<3, 1, 3, 1>> => call.ret = 6
           /\ call.args = <<2, 1, 3, 1>> => call.ret = 3
           /\ call.args = <<1, 0, 3, 0>> => call.ret = 2
           /\ call.args = <<0, 0, 1, 0>> => call.ret = 0

\* a close guess with the wrong direction has been scored
PointsTieringWitness ==
    /\ call.fn = "points" /\ call.done
    /\ call.args = <<0, 0, 1, 0>>
    /\ call.ret = 0

\* C2: the best guess has expected points >= those of every candidate of the grid
BestGuessOptimal ==
    SearchDone =>
        LET prob == call.ret.probabilities
            best == CellOf(call.ret.best_guess)
            bestEP == ExpectedPoints(prob, best[1], best[2])
        IN \A ep \in {ExpectedPoints(prob, g[1], g[2]) : g \in Cells} : bestEP >= ep

\* a search whose best guess is not the most likely score and strictly beats it
BestGuessOptimalWitness ==
    /\ SearchDone
    /\ call.ret.best_guess # call.ret.most_likely_score
    /\ LET prob == call.ret.probabilities
           best == CellOf(call.ret.best_guess)
           ml == CellOf(call.ret.most_likely_score)
       IN ExpectedPoints(prob, best[1], best[2]) > ExpectedPoints(prob, ml[1], ml[2])

\* the value each selection maximises, per cell
ProbOf(prob, c) == (CHOOSE i \in DOMAIN prob : prob[i].h = c[1] /\ prob[i].a = c[2])

\* the cells at which val is greatest
MaxCells(val(_)) ==
    LET pairs == {<<c, val(c)>> : c \in Cells}
        top == CHOOSE v \in {q[2] : q \in pairs} : \A q \in pairs : v >= q[2]
    IN {q[1] : q \in {r \in pairs : r[2] = top}}

\* the first cell of a set in the order that runs through the home goals first
\* (0-0, 1-0, 2-0, ..., 0-1, 1-1, ...)
FirstHomeFastest(S) == CHOOSE c \in S : \A d \in S : c[2] * 7 + c[1] <= d[2] * 7 + d[1]

\* the first cell of a set in the order of the loops: home goals in the outer
\* loop, away goals in the inner one (0-0, 0-1, 0-2, ..., 1-0, 1-1, ...)
FirstAwayFastest(S) == CHOOSE c \in S : \A d \in S : c[1] * 7 + c[2] <= d[1] * 7 + d[2]

\* C3 as stated: among the cells that share the maximum both selections return
\* the first in an order in which 1-0 comes before 0-1
TieBreakAsStated ==
    SearchDone =>
        LET prob == call.ret.probabilities
            P(c) == prob[ProbOf(prob, c)].p
            EP(c) == ExpectedPoints(prob, c[1], c[2])
        IN /\ CellOf(call.ret.most_likely_score) = FirstHomeFastest(MaxCells(P))
           /\ CellOf(call.ret.best_guess) = FirstHomeFastest(MaxCells(EP))

\* C3, amended: among the cells that share the maximum both selections return
\* the first in the order of the loops, home goals ascending in the outer loop
\* and away goals ascending in the inner loop, in which 0-0 comes before 0-1 and
\* 0-1 before 1-0 (a tie between 1-0 and 0-1 is resolved to 0-1)
TieBreakLoopOrder ==
    SearchDone =>
        LET prob == call.ret.probabilities
            P(c) == prob[ProbOf(prob, c)].p
            EP(c) == ExpectedPoints(prob, c[1], c[2])
        IN /\ CellOf(call.ret.most_likely_score) = FirstAwayFastest(MaxCells(P))
           /\ CellOf(call.ret.best_guess) = FirstAwayFastest(MaxCells(EP))

\* a search in which 1-0 and 0-1 share the maximal expected points, and 0-1 won
TieBreakWitness ==
    /\ SearchDone
    /\ LET prob == call.ret.probabilities
           EP(c) == ExpectedPoints(prob, c[1], c[2])
       IN /\ <<1, 0>> \in MaxCells(EP)
          /\ <<0, 1>> \in MaxCells(EP)
    /\ call.ret.best_guess = "0-1"

Is_18_11 == SearchDone /\ call.args = <<Fin(18, 10), Fin(11, 10)>>

\* C4 as stated: with expected goals 1.8 and 1.1 the most likely score is 2-1
MostLikely_18_11_AsStated == Is_18_11 => call.ret.most_likely_score = "2-1"

\* C4, amended: with expected goals 1.8 and 1.1 the most likely score is 1-1
\* (the cell of greatest probability, and 2-1 is strictly less likely)
MostLikely_18_11 ==
    Is_18_11 =>
        LET prob == call.ret.probabilities
        IN /\ call.ret.most_likely_score = "1-1"
           /\ \A c \in Cells \ {<<1, 1>>} :
                 prob[ProbOf(prob, <<1, 1>>)].p > prob[ProbOf(prob, c)].p

MostLikely_18_11_Witness == Is_18_11 /\ call.ret.most_likely_score = "1-1"

\* C10: the probability table has exactly one row per score with both goal
\* counts in 0..6 (49 rows), and the candidate guesses are the same 49 scores
GridIs49 ==
    SearchDone =>
        LET prob == call.ret.probabilities
            cand == call.ret.candidates
        IN /\ Len(prob) = 49
           /\ {<<prob[i].h, prob[i].a>> : i \in DOMAIN prob} = Cells
           /\ Len(cand) = 49
           /\ {<<cand[i].h, cand[i].a>> : i \in DOMAIN cand} = Cells

GridIs49Witness ==
    /\ SearchDone
    /\ Len(call.ret.probabilities) = 49
    /\ \E i \in DOMAIN call.ret.probabilities :
          call.ret.probabilities[i].h = 6 /\ call.ret.probabilities[i].a = 6

(***************************************************************************)
(* Properties of the request handler.                                      *)
(***************************************************************************)
Reqs == 1..NumReq

Done(r) == req[r].pc = "done"

PredictionFields ==
    {"Home_Team", "Away_Team", "Predicted_Goals_Home", "Predicted_Goals_Away",
     "Most_Likely_Score", "Best_SuperBru_Prediction"}

NoPredictionFields(resp) == DOMAIN resp.body \cap PredictionFields = {}

\* the tables a successful scrape can return
ScrapedTables == {fetch_understat_xg_data(TRUE, p) : p \in Pages} \ {NoneDF}

TeamsOf(df) == {df.rows[i].Team : i \in DOMAIN df.rows}

\* the requested teams the table of request r does not hold
MissingTeams(r) == {req[r].data.team1, req[r].data.team2} \ TeamsOf(req[r].df)

\* what tells one failure from another for the caller: the status and the error
FailureKind(resp) == <<resp.status, resp.body.error>>

\* the failures that are not about an unknown team: the two rejections of the
\* request, the missing table, and the catch-all for any exception
OtherFailureKinds ==
    {<<400, "Both 'team1' and 'team2' are required">>,
     <<400, "Teams must be different">>,
     <<503, "Failed to fetch xG data. Please try again later.">>,
     <<500, "Internal server error">>}

\* the teams an error response names
TeamsNamed(resp) == {t \in Names : \E f \in DOMAIN resp.body : resp.body[f] = t}

\* C5: a request for a team the table does not hold fails with an unknown-team
\* error that names a missing team, is no other kind of failure, and carries no
\* prediction field
UnknownTeamReported ==
    \A r \in Reqs :
        (Done(r) /\ ~req[r].df.isNone /\ MissingTeams(r) # {}) =>
            /\ req[r].resp.status # 200
            /\ NoPredictionFields(req[r].resp)
            /\ FailureKind(req[r].resp) \notin OtherFailureKinds
            /\ TeamsNamed(req[r].resp) \cap MissingTeams(r) # {}

\* a league-wide denominator of predict_goals is zero
ZeroDenominator(df) ==
    \/ Sum(Column(df.rows, "Away_Games_Played")) = 0
    \/ Sum(Column(df.rows, "Home_Games_Played")) = 0

\* C6: with a zero league-wide denominator neither predict_goals nor the
\* response holds a nan or an infinity
NoNaNOnZeroDenominator ==
    \A r \in Reqs :
        (Done(r) /\ ~req[r].df.isNone /\ ZeroDenominator(req[r].df)) =>
            LET goals == predict_goals(req[r].data.team1, req[r].data.team2, req[r].df)
            IN /\ ~goals.raised => (IsFinite(goals.value[1]) /\ IsFinite(goals.value[2]))
               /\ req[r].resp.status = 200 =>
                     /\ IsFinite(req[r].resp.body.Predicted_Goals_Home)
                     /\ IsFinite(req[r].resp.body.Predicted_Goals_Away)

\* C7: a prediction comes only from a table read from a cache file less than 3
\* hours old or scraped by the same request, and a table a scrape returned; a
\* request that gets no table answers 503 without any prediction field
OnlyFreshOrScraped ==
    \A r \in Reqs :
        Done(r) =>
            /\ ~NoPredictionFields(req[r].resp) => req[r].resp.status = 200
            /\ req[r].resp.status = 200 =>
                  /\ \/ req[r].src = "cache" /\ ~req[r].staleRead
                     \/ req[r].src = "scrape"
                  /\ req[r].df \in ScrapedTables
            /\ req[r].src = "failed" =>
                  /\ req[r].resp.status = 503
                  /\ NoPredictionFields(req[r].resp)
                  /\ req[r].df.isNone

\* the scrape failed while a complete but expired cache file was there, and the
\* request answered 503
OnlyFreshOrScrapedWitness ==
    \E r \in Reqs :
        /\ Done(r) /\ req[r].src = "failed" /\ req[r].resp.status = 503
        /\ cache.exists /\ cache.age >= 3 /\ cache.content \in ScrapedTables

\* C8: a request with the same team twice is answered 400 "Teams must be
\* different" by the step that receives it: it never looks at the cache, never
\* scrapes, holds no table and its response carries no prediction field
SameTeamRejectedFirst ==
    \A r \in Reqs :
        (/\ req[r].pc # "idle"
         /\ {"team1", "team2"} \subseteq DOMAIN req[r].data
         /\ req[r].data.team1 = req[r].data.team2) =>
            /\ Done(r)
            /\ req[r].resp = Response(400, [error |-> "Teams must be different"])
            /\ NoPredictionFields(req[r].resp)
            /\ req[r].src = "none"
            /\ req[r].df.isNone

\* a same-team request was rejected while a fresh complete cache file was there
SameTeamRejectedFirstWitness ==
    \E r \in Reqs :
        /\ Done(r)
        /\ {"team1", "team2"} \subseteq DOMAIN req[r].data
        /\ req[r].data.team1 = req[r].data.team2
        /\ req[r].resp.status = 400
        /\ cache.exists /\ cache.age = 0 /\ cache.content \in ScrapedTables

\* C9: no request reads the cache file while a refresh has it partially
\* written: the stored table is only ever replaced by a complete one
SnapshotSwap ==
    \A r \in Reqs : req[r].pc = "load" => cache.content # Partial

\* predict_goals never returns an infinity on a scraped table: a denominator
\* is zero only when the numerator is
PredictGoalsNeverInf ==
    \A df \in ScrapedTables : \A h \in TeamsOf(df), a \in TeamsOf(df) :
        LET goals == predict_goals(h, a, df)
        IN goals.value[1].k # "inf" /\ goals.value[2].k # "inf"

====
